---- MODULE Spec2Model ----
(***************************************************************************)
(* Model of herbpy's guarded motion primitive WAM.MoveUntilTouch           *)
(* (src/src/herbpy/wam.py) together with the part of                       *)
(* HERBRobot.ExecuteTrajectory (src/src/herbpy/herbrobot.py) it calls,     *)
(* of the velocity servo of the arm, WAM.Servo and WAM.ServoTo, and of     *)
(* the hand, BarrettHand.MoveHand, OpenHand and CloseHand                  *)
(* (src/src/herbpy/barretthand.py).  Hand joints are in tenths of a radian.*)
(* The gestures of src/src/herbpy/action/rogue.py are modelled by the      *)
(* calls they make on the arm and the hand.                                *)
(* HERBRobot.ExecuteTrajectory is also modelled for any set of active      *)
(* manipulators, and HERBRobot.__init__ for the force/torque flags it      *)
(* binds the two hands with.                                               *)
(*                                                                         *)
(* Time is counted in milliseconds, joint values in integer units.  One    *)
(* joint stands for the arm's joint vector: the straight-line offset the   *)
(* planner returns moves it monotonically.                                 *)
(***************************************************************************)
EXTENDS Integers, Sequences, FiniteSets, TLC

\* ------------------------------------------------------------------ bounds
MaxSegs == 2          \* segments of a planned path (single-caller runs)
MaxConcSegs == 1      \* segments of a planned path (two-caller runs)
JointLimit == 60      \* upper joint limit: the planner returns no path beyond it
ConcJointLimit == 30  \* the same limit in the two-caller runs
ArmDOF == 2           \* joints of the modelled arm (len(GetArmIndices()))
MaxWait == 3          \* ticks a wait for the hand controller is followed for

\* --------------------------------------------------------- program constants
delta_t == 10         \* wam.py:259  delta_t = 0.01 (seconds), here in ms

\* ------------------------------------------------------------ input domains
Callers == {1, 2}                 \* threads that may call MoveUntilTouch
QSteps == {10, 30}                \* joint displacement of one path segment
ConcQSteps == {30}                \* the same in the two-caller runs
Speeds == {1, 2}                  \* joint units per ms chosen by the retimer
Distances == {0, 20}              \* the "distance" argument (minimum distance)
ConcDistances == {20}             \* the same in the two-caller runs
NoTick == -1
NoValue == -1                     \* None as a joint value or a timeout
Manipulators == {"left", "right", "head"}   \* herbrobot.py:34-36

VARIABLES
    simulated,     \* WAM.simulated
    envOwner,      \* holder of the OpenRAVE environment lock ("with env"), 0 = free
    dof,           \* the robot model's joint value (GetDOFValues / SetDOFValues)
    pc,            \* pc[p]: position of caller p inside MoveUntilTouch
    distance,      \* distance[p]: the minimum-distance argument of the call
    path,          \* path[p]: geometric path returned by PlanToEndEffectorOffset
    traj,          \* traj[p]: timed trajectory returned by PostProcessPath
    saved,         \* saved[p]: joint value held by the robot_saver of line 321
    idx,           \* idx[p]: 1-based index of the sample the loop is at
    new_traj,      \* new_traj[p]: the output trajectory built by the loop
    is_collision,  \* is_collision[p]
    reason,        \* reason[p]: which termination the loop logged
    sensed,        \* sensed[p]: what held at the sample that stopped the loop
    plans,         \* plans[p]: planner invocations made by the current call
    planOK,        \* planOK[p]: the planner returned a path (it did not raise)
    sent,          \* sent[p]: trajectories the current call dispatched to the controller
    result,        \* result[p]: return value or exception of the last call
    cancelAt,      \* cancelAt[p]: samples applied when a cancel signal was raised
    expiredAt,     \* expiredAt[p]: samples applied when the deadline expired
    bodyEnabled,   \* enabled flag of the body listed in ignore_collisions
    planSaved      \* planSaved[p]: what the savers of the planning block hold

VARIABLES
    servoPc,          \* position of the caller inside ServoTo
    servoOp,          \* the servo operation called last: "Servo" or "ServoTo"
    servoArg,         \* the velocities argument of the last Servo call
    servoTarget,      \* ServoTo: the target argument
    servoDuration,    \* ServoTo: the duration argument, ms
    servoTimeStep,    \* ServoTo: the timeStep argument, ms
    servoSteps,       \* ServoTo: steps
    servoI,           \* ServoTo: loop variable i of range(1, steps)
    servoChecking,    \* ServoTo: the collisionChecking argument
    servoInCollision, \* ServoTo: inCollision
    servoLog,         \* velocity vectors the current call gave to servo_simulator
    servoResult       \* return value or exception of the last servo operation

VARIABLES
    handSimulated,    \* BarrettHand.simulated
    handQ,            \* the hand's joint values [finger 0, finger 1, finger 2, spread]
    handPc,           \* position of the caller inside MoveHand / OpenHand / CloseHand
    handOp,           \* the hand operation called last
    handArgs,         \* its arguments f1, f2, f3, spread and timeout
    handCmds,         \* commands the current call gave to the hand's controller
    handDesired,      \* the configuration the controller is driving the hand to
    handWaitTimeout,  \* the timeout WaitForControllers was called with
    handWaited,       \* ticks the current wait has lasted
    handWaitResult,   \* how the wait ended
    handResult        \* what the hand operation returned

VARIABLES
    actActive,        \* name of robot.GetActiveManipulator()
    actKind,          \* the gesture called last
    actManip,         \* its manip argument, "None" when not given
    actLog,           \* planning calls and hand commands the gesture made
    actResult         \* what the gesture returned or raised

VARIABLES
    velLimits,        \* the OpenRAVE joint velocity limits of the arm
    accelLimits,      \* the OpenRAVE joint acceleration limits of the arm
    cloneSimulated    \* the modes of the arm bindings made by cloning

VARIABLES
    exPc,             \* position of a caller inside HERBRobot.ExecuteTrajectory
    exActive,         \* active_manipulators of its trajectory, by name
    exI,              \* index of the manipulator the current loop is at
    exLog,            \* status calls and the dispatch made by the call, in order
    exResult          \* what the call returned or raised

VARIABLES
    ctorArgs,         \* left_ft_sim and right_ft_sim given to HERBRobot.__init__
    ftSimulated,      \* ft_simulated of the left and of the right hand
    ftRead            \* the hand and the source of the last GetForceTorque

moveVars == <<simulated, envOwner, dof, pc, distance, path, traj, saved, idx,
              new_traj, is_collision, reason, sensed, plans, planOK, sent,
              result, cancelAt, expiredAt, bodyEnabled, planSaved>>

servoVars == <<servoPc, servoOp, servoArg, servoTarget, servoDuration,
               servoTimeStep, servoSteps, servoI, servoChecking,
               servoInCollision, servoLog, servoResult>>

handVars == <<handSimulated, handQ, handPc, handOp, handArgs, handCmds,
              handDesired, handWaitTimeout, handWaited, handWaitResult,
              handResult>>

gestureVars == <<actKind, actManip, actLog, actResult>>

rogueVars == <<actActive, gestureVars>>

bindVars == <<velLimits, accelLimits, cloneSimulated>>

\* what the operations of each group leave alone
execVars == <<exPc, exActive, exI, exLog, exResult>>

bootVars == <<ctorArgs, ftSimulated, ftRead>>

otherVars == <<servoVars, handVars, rogueVars, bindVars, execVars,
    bootVars>>
nonServoVars == <<moveVars, handVars, rogueVars, bindVars, execVars,
    bootVars>>
nonHandVars == <<moveVars, servoVars, rogueVars, bindVars, execVars,
    bootVars>>
nonRogueVars == <<moveVars, servoVars, handVars, bindVars, execVars,
    bootVars>>
nonBindVars == <<moveVars, servoVars, handVars, rogueVars, execVars,
    bootVars>>
nonBootVars == <<moveVars, servoVars, handVars, rogueVars, bindVars, execVars>>

\* what the planning block of MoveUntilTouch leaves alone outside moveVars
planOtherVars == <<servoVars, handVars, gestureVars, bindVars, execVars,
    bootVars>>
nonExecVars == <<moveVars, servoVars, handVars, rogueVars, bindVars,
    bootVars>>

vars == <<moveVars, otherVars>>

\* ------------------------------------------------------------ pure helpers
CeilDiv(a, b) == (a + b - 1) \div b

\* numpy.arange(start, stop, step): start, start+step, ... strictly below stop
arange(start, stop, step) ==
    [i \in 1..(IF stop > start THEN CeilDiv(stop - start, step) ELSE 0)
        |-> start + (i - 1) * step]

\* traj.GetDuration(): timestamp of the last waypoint, 0 for an empty trajectory
GetDuration(tr) == IF Len(tr) = 0 THEN 0 ELSE tr[Len(tr)].t

\* traj.Sample(t): linear interpolation between the bracketing waypoints
Sample(tr, time) ==
    IF Len(tr) = 1 \/ time <= tr[1].t THEN tr[1].q
    ELSE LET j == CHOOSE k \in 1..(Len(tr) - 1) :
                      /\ tr[k].t <= time
                      /\ time <= tr[k + 1].t
                      /\ \A m \in 1..(k - 1) : tr[m + 1].t < time
         IN tr[j].q + ((tr[j + 1].q - tr[j].q) * (time - tr[j].t))
                         \div (tr[j + 1].t - tr[j].t)

\* geometric paths of n segments starting at joint value q0
RECURSIVE PathsFrom(_, _, _)
PathsFrom(q0, n, steps) ==
    IF n = 0 THEN {<<q0>>}
    ELSE {<<q0>> \o rest : rest \in
             UNION {PathsFrom(q0 + s, n - 1, steps) : s \in steps}}

\* what PlanToEndEffectorOffset can return from joint value q0
PlannerPaths(q0, maxsegs, steps, limit) ==
    {p \in UNION {PathsFrom(q0, n, steps) : n \in 0..maxsegs} : p[Len(p)] <= limit}
        \cup {<< >>}

\* robot.PostProcessPath(path): the retimed trajectories of a path
RECURSIVE Retimed(_, _)
Retimed(p, t0) ==
    IF Len(p) = 0 THEN {<< >>}
    ELSE IF Len(p) = 1 THEN {<<[t |-> t0, q |-> p[1]]>>}
    ELSE UNION {{<<[t |-> t0, q |-> p[1]]>> \o rest :
                    rest \in Retimed(Tail(p), t0 + (p[2] - p[1]) \div v)}
                : v \in Speeds}

PostProcessPath(p) == Retimed(p, 0)


\* ------------------------------------------------- the loop's guard checks
NoReadings == [env |-> FALSE, self |-> FALSE, force |-> FALSE]

\* variant of CheckGuards: the force threshold is looked at first
CheckGuardsForceFirst(envc, selfc, force, cancelled, expired) ==
    IF force THEN "ForceThreshold"
    ELSE IF envc THEN "EnvironmentCollision"
    ELSE IF selfc THEN "SelfCollision"
    ELSE "None"

\* variant of CheckGuards: a raised cancel signal stops the loop
CheckGuardsCancel(envc, selfc, force, cancelled, expired) ==
    IF envc THEN "EnvironmentCollision"
    ELSE IF selfc THEN "SelfCollision"
    ELSE IF cancelled THEN "Cancelled"
    ELSE "None"

\* variant of CheckGuards: an expired deadline stops the loop
CheckGuardsDeadline(envc, selfc, force, cancelled, expired) ==
    IF envc THEN "EnvironmentCollision"
    ELSE IF selfc THEN "SelfCollision"
    ELSE IF expired THEN "Timeout"
    ELSE "None"

\* variant of CheckGuards: the self-collision check is made first
CheckGuardsSelfFirst(envc, selfc, force, cancelled, expired) ==
    IF selfc THEN "SelfCollision"
    ELSE IF envc THEN "EnvironmentCollision"
    ELSE "None"

\* wam.py:332-345: the termination the loop logs for one sample.  The force
\* reading, the cancel signal and the deadline are passed in to show what the
\* loop could look at; the code reads only the two collision checks.
CheckGuards(envc, selfc, force, cancelled, expired) ==
    IF envc THEN "EnvironmentCollision"
    ELSE IF selfc THEN "SelfCollision"
    ELSE "None"

\* variant of LoopBody: the sample is inserted before it is checked
LoopBodyInsertFirst(out, waypoint, why) == Append(out, waypoint)

\* wam.py:332-353: the output trajectory after one iteration: a sample that
\* trips a check leaves the loop before it is inserted
LoopBody(out, waypoint, why) ==
    IF why # "None" THEN out ELSE Append(out, waypoint)

\* variant of LockAvailable: the environment is entered without locking
LockAvailableAlways(owner) == TRUE

\* wam.py:280, 324: "with env" enters only when no other thread holds the lock
LockAvailable(owner) == owner = 0

\* wam.py:348-351: the delta time stored with an inserted waypoint
InsertDeltaTime(numWaypoints) == IF numWaypoints = 0 THEN 0 ELSE delta_t

\* variant of ShouldExecute: the output trajectory is executed even when empty
ShouldExecuteAlways(numWaypoints) == TRUE

\* wam.py:355: the output trajectory is executed only when it is not empty
ShouldExecute(numWaypoints) == numWaypoints > 0

\* variant of ReturnValue: a value is returned only after a collision
ReturnValueOnlyOnCollision(collided) == IF collided THEN "True" ELSE "none"

\* wam.py:358: return is_collision
ReturnValue(collided) == IF collided THEN "True" ELSE "False"

\* wam.py:221-226: WAM.ClearTrajectoryStatus always raises
ClearTrajectoryStatus == "NotImplementedError"

\* wam.py:213-219: WAM.GetTrajectoryStatus always raises
GetTrajectoryStatus == "NotImplementedError"

Exceptions == {"NotImplementedError", "PlanningError", "TrajectoryAborted"}

\* herbrobot.py:244-259 for a trajectory of this WAM's joints: the active
\* manipulators are this WAM alone.  dispatched: the trajectory reached the
\* underlying executor; exc: the exception that leaves the method.
ExecuteTrajectory ==
    IF ClearTrajectoryStatus \in Exceptions
    THEN [dispatched |-> FALSE, exc |-> ClearTrajectoryStatus]
    ELSE IF GetTrajectoryStatus \in Exceptions
    THEN [dispatched |-> TRUE, exc |-> GetTrajectoryStatus]
    ELSE IF GetTrajectoryStatus = "aborted"
    THEN [dispatched |-> TRUE, exc |-> "TrajectoryAborted"]
    ELSE [dispatched |-> TRUE, exc |-> "none"]

Hands == {"left", "right"}       \* herbrobot.py:39-40

\* herbrobot.py:47-50 with barretthand.py:86: the ft_sim a hand is bound with;
\* both bind_subclass calls pass right_ft_sim
HandFtSim(side, args) == args.right_ft_sim

\* herbrobot.py:35: the arm MoveUntilTouch is called on
ArmName == "right"

\* wam.py:287-292: what body_savers and robot_saver hold
SaverState(enabled, active) == [enabled |-> enabled, active |-> active]

\* a body saver that is never applied: the body stays as the block left it
RestoreEnabledForgotten(held, current) == current

\* wam.py:294: leaving "with nested(*body_savers)" restores the enabled flag
RestoreEnabled(held, current) == held

\* wam.py:294: leaving "with robot_saver" restores the active manipulator
\* (and with it the active DOFs)
RestoreActive(held, current) == held

\* variant of AfterPlan: a planner error is swallowed
AfterPlanIgnoresPlanner(planned, sim) ==
    IF ~sim THEN "NotImplementedError" ELSE "simulate"

\* wam.py:301-311: where the call goes after the planning block
AfterPlan(planned, sim) ==
    IF ~planned THEN "PlanningError"
    ELSE IF ~sim THEN "NotImplementedError"
    ELSE "simulate"

\* ------------------------------------------------------------------- state
\* no hand operation was called yet
NoArgs ==
    [f1 |-> NoValue, f2 |-> NoValue, f3 |-> NoValue, spread |-> NoValue,
     timeout |-> NoValue]

RunningPcs == {"lock1", "plan", "planned", "lock2", "sim", "simexit", "exec"}

InitBody ==
    /\ simulated \in BOOLEAN
    /\ planSaved = [p \in Callers |-> SaverState(TRUE, "right")]
    /\ envOwner = 0
    /\ dof = 0
    /\ pc = [p \in Callers |-> "idle"]
    /\ distance = [p \in Callers |-> 0]
    /\ path = [p \in Callers |-> << >>]
    /\ traj = [p \in Callers |-> << >>]
    /\ saved = [p \in Callers |-> 0]
    /\ idx = [p \in Callers |-> 0]
    /\ new_traj = [p \in Callers |-> << >>]
    /\ is_collision = [p \in Callers |-> FALSE]
    /\ reason = [p \in Callers |-> "None"]
    /\ sensed = [p \in Callers |-> NoReadings]
    /\ plans = [p \in Callers |-> 0]
    /\ planOK = [p \in Callers |-> TRUE]
    /\ sent = [p \in Callers |-> << >>]
    /\ result = [p \in Callers |-> "none"]
    /\ cancelAt = [p \in Callers |-> NoTick]
    /\ expiredAt = [p \in Callers |-> NoTick]
    /\ servoPc = "idle"
    /\ servoOp = "none"
    /\ servoArg = << >>
    /\ servoTarget = << >>
    /\ servoDuration = 0
    /\ servoTimeStep = 0
    /\ servoSteps = 0
    /\ servoI = 0
    /\ servoChecking = FALSE
    /\ servoInCollision = FALSE
    /\ servoLog = << >>
    /\ servoResult = "none"
    /\ handSimulated \in BOOLEAN
    /\ handQ = <<0, 0, 0, 0>>
    /\ handPc = "idle"
    /\ handOp = "none"
    /\ handArgs = NoArgs
    /\ handCmds = << >>
    /\ handDesired = <<0, 0, 0, 0>>
    /\ handWaitTimeout = NoValue
    /\ handWaited = 0
    /\ handWaitResult = "none"
    /\ handResult = "none"
    /\ actActive \in Manipulators
    /\ actKind = "none"
    /\ actManip = "None"
    /\ actLog = << >>
    /\ actResult = "none"
    /\ velLimits = [j \in 1..ArmDOF |-> 1]
    /\ accelLimits = [j \in 1..ArmDOF |-> [num |-> 1, den |-> 1]]
    /\ cloneSimulated = {}
    /\ exPc = "idle"
    /\ exActive = << >>
    /\ exI = 0
    /\ exLog = << >>
    /\ exResult = "none"
    /\ ftSimulated = [side \in Hands |-> HandFtSim(side, ctorArgs)]
    /\ ftRead = [hand |-> "none", from |-> "none"]

\* the state after construction, the body of ignore_collisions enabled
Init ==
    /\ ctorArgs = [left_ft_sim |-> TRUE, right_ft_sim |-> TRUE]
    /\ InitBody
    /\ bodyEnabled = TRUE

\* wam.py:228-278: a caller enters MoveUntilTouch (a first or a later call)
Call(p, dists) ==
    /\ pc[p] \in {"idle", "done"}
    /\ \E d \in dists : distance' = [distance EXCEPT ![p] = d]
    /\ pc' = [pc EXCEPT ![p] = "lock1"]
    /\ path' = [path EXCEPT ![p] = << >>]
    /\ traj' = [traj EXCEPT ![p] = << >>]
    /\ idx' = [idx EXCEPT ![p] = 0]
    /\ new_traj' = [new_traj EXCEPT ![p] = << >>]
    /\ is_collision' = [is_collision EXCEPT ![p] = FALSE]
    /\ reason' = [reason EXCEPT ![p] = "None"]
    /\ sensed' = [sensed EXCEPT ![p] = NoReadings]
    /\ plans' = [plans EXCEPT ![p] = 0]
    /\ planOK' = [planOK EXCEPT ![p] = TRUE]
    /\ sent' = [sent EXCEPT ![p] = << >>]
    /\ result' = [result EXCEPT ![p] = "none"]
    /\ cancelAt' = [cancelAt EXCEPT ![p] = NoTick]
    /\ expiredAt' = [expiredAt EXCEPT ![p] = NoTick]
    /\ UNCHANGED otherVars
    /\ UNCHANGED <<bodyEnabled, planSaved>>
    /\ UNCHANGED <<simulated, envOwner, dof, saved>>

\* wam.py:280-298: "with env" of the planning block: the savers are created
\* and entered, the arm is made active, the ignored body is disabled
AcquirePlan(p) ==
    /\ pc[p] = "lock1"
    /\ LockAvailable(envOwner)
    /\ envOwner' = p
    /\ planSaved' = [planSaved EXCEPT ![p] = SaverState(bodyEnabled, actActive)]
    /\ actActive' = ArmName
    /\ bodyEnabled' = FALSE
    /\ pc' = [pc EXCEPT ![p] = "plan"]
    /\ UNCHANGED planOtherVars
    /\ UNCHANGED <<simulated, dof, distance, path, traj, saved, idx, new_traj,
                   is_collision, reason, sensed, plans, planOK, sent, result,
                   cancelAt, expiredAt>>

\* wam.py:293-311: plan the offset path, leave the block (the savers restore
\* what they hold, also when the planner raised), branch on simulated
Plan(p, maxsegs, steps, limit) ==
    /\ pc[p] = "plan"
    /\ plans' = [plans EXCEPT ![p] = @ + 1]
    /\ envOwner' = 0
    /\ \E planned \in BOOLEAN :
         \E pth \in (IF planned THEN PlannerPaths(dof, maxsegs, steps, limit)
                       ELSE {<< >>}) :
           LET next == AfterPlan(planned, simulated) IN
           /\ path' = [path EXCEPT ![p] = pth]
           /\ planOK' = [planOK EXCEPT ![p] = planned]
           /\ IF next = "simulate"
              THEN /\ pc' = [pc EXCEPT ![p] = "planned"]
                   /\ result' = result
              ELSE /\ pc' = [pc EXCEPT ![p] = "done"]
                   /\ result' = [result EXCEPT ![p] = next]
    /\ bodyEnabled' = RestoreEnabled(planSaved[p].enabled, bodyEnabled)
    /\ actActive' = RestoreActive(planSaved[p].active, actActive)
    /\ UNCHANGED planSaved
    /\ UNCHANGED planOtherVars
    /\ UNCHANGED <<simulated, dof, distance, traj, saved, idx, new_traj,
                   is_collision, reason, sensed, sent, cancelAt, expiredAt>>

\* wam.py:314-322: retime the path, start the output trajectory, save the state
PostProcess(p) ==
    /\ pc[p] = "planned"
    /\ \E tr \in PostProcessPath(path[p]) : traj' = [traj EXCEPT ![p] = tr]
    /\ is_collision' = [is_collision EXCEPT ![p] = FALSE]
    /\ new_traj' = [new_traj EXCEPT ![p] = << >>]
    /\ saved' = [saved EXCEPT ![p] = dof]
    /\ pc' = [pc EXCEPT ![p] = "lock2"]
    /\ UNCHANGED otherVars
    /\ UNCHANGED <<bodyEnabled, planSaved>>
    /\ UNCHANGED <<simulated, envOwner, dof, distance, path, idx, reason,
                   sensed, plans, planOK, sent, result, cancelAt, expiredAt>>

\* wam.py:324: "with env, robot_saver" of the forward simulation
AcquireSim(p) ==
    /\ pc[p] = "lock2"
    /\ LockAvailable(envOwner)
    /\ envOwner' = p
    /\ idx' = [idx EXCEPT ![p] = 1]
    /\ pc' = [pc EXCEPT ![p] = "sim"]
    /\ UNCHANGED otherVars
    /\ UNCHANGED <<bodyEnabled, planSaved>>
    /\ UNCHANGED <<simulated, dof, distance, path, traj, saved, new_traj,
                   is_collision, reason, sensed, plans, planOK, sent, result,
                   cancelAt, expiredAt>>

\* wam.py:325-353: one iteration of the forward-simulation loop
SimStep(p) ==
    /\ pc[p] = "sim"
    /\ LET times == arange(0, GetDuration(traj[p]), delta_t) IN
       IF idx[p] > Len(times)
       THEN /\ pc' = [pc EXCEPT ![p] = "simexit"]
            /\ UNCHANGED <<dof, idx, new_traj, is_collision, reason, sensed>>
       ELSE \E envc \in BOOLEAN, selfc \in BOOLEAN, force \in BOOLEAN :
              LET q == Sample(traj[p], times[idx[p]])
                  why == CheckGuards(envc, selfc, force,
                                     cancelAt[p] # NoTick, expiredAt[p] # NoTick)
              IN /\ dof' = q
                 /\ new_traj' = [new_traj EXCEPT ![p] = LoopBody(@,
                        [q |-> q,
                         deltatime |-> InsertDeltaTime(Len(new_traj[p]))], why)]
                 /\ IF why # "None"
                    THEN /\ is_collision' = [is_collision EXCEPT ![p] = TRUE]
                         /\ sensed' = [sensed EXCEPT ![p] =
                                [env |-> envc, self |-> selfc, force |-> force]]
                         /\ reason' = [reason EXCEPT ![p] = why]
                         /\ pc' = [pc EXCEPT ![p] = "simexit"]
                         /\ UNCHANGED idx
                    ELSE /\ idx' = [idx EXCEPT ![p] = @ + 1]
                         /\ UNCHANGED <<pc, is_collision, reason, sensed>>
    /\ UNCHANGED otherVars
    /\ UNCHANGED <<bodyEnabled, planSaved>>
    /\ UNCHANGED <<simulated, envOwner, distance, path, traj, saved, plans,
                   planOK, sent, result, cancelAt, expiredAt>>

\* wam.py:324: leaving the "with": the saver restores the joints, env is released
SimExit(p) ==
    /\ pc[p] = "simexit"
    /\ dof' = saved[p]
    /\ envOwner' = 0
    /\ pc' = [pc EXCEPT ![p] = "exec"]
    /\ UNCHANGED otherVars
    /\ UNCHANGED <<bodyEnabled, planSaved>>
    /\ UNCHANGED <<simulated, distance, path, traj, saved, idx, new_traj,
                   is_collision, reason, sensed, plans, planOK, sent, result,
                   cancelAt, expiredAt>>

\* wam.py:355-358: execute the output trajectory and return
Execute(p) ==
    /\ pc[p] = "exec"
    /\ IF ShouldExecute(Len(new_traj[p]))
       THEN /\ sent' = [sent EXCEPT ![p] =
                   IF ExecuteTrajectory.dispatched
                   THEN Append(@, new_traj[p]) ELSE @]
            /\ result' = [result EXCEPT ![p] =
                   IF ExecuteTrajectory.exc # "none"
                   THEN ExecuteTrajectory.exc
                   ELSE ReturnValue(is_collision[p])]
       ELSE /\ sent' = sent
            /\ result' = [result EXCEPT ![p] = ReturnValue(is_collision[p])]
    /\ pc' = [pc EXCEPT ![p] = "done"]
    /\ UNCHANGED otherVars
    /\ UNCHANGED <<bodyEnabled, planSaved>>
    /\ UNCHANGED <<simulated, envOwner, dof, distance, path, traj, saved, idx,
                   new_traj, is_collision, reason, sensed, plans, planOK,
                   cancelAt, expiredAt>>

\* environment: an external cancel signal is raised while the call is running
Cancel(p) ==
    /\ pc[p] \in RunningPcs
    /\ cancelAt[p] = NoTick
    /\ cancelAt' = [cancelAt EXCEPT ![p] = Len(new_traj[p])]
    /\ UNCHANGED otherVars
    /\ UNCHANGED <<bodyEnabled, planSaved>>
    /\ UNCHANGED <<simulated, envOwner, dof, pc, distance, path, traj, saved,
                   idx, new_traj, is_collision, reason, sensed, plans, planOK,
                   sent, result, expiredAt>>

\* environment: a wall-clock deadline passes while the call is running
Expire(p) ==
    /\ pc[p] \in RunningPcs
    /\ expiredAt[p] = NoTick
    /\ expiredAt' = [expiredAt EXCEPT ![p] = Len(new_traj[p])]
    /\ UNCHANGED otherVars
    /\ UNCHANGED <<bodyEnabled, planSaved>>
    /\ UNCHANGED <<simulated, envOwner, dof, pc, distance, path, traj, saved,
                   idx, new_traj, is_collision, reason, sensed, plans, planOK,
                   sent, result, cancelAt>>

\* one caller
Next ==
    \E p \in {1} :
        \/ Call(p, Distances)
        \/ AcquirePlan(p)
        \/ Plan(p, MaxSegs, QSteps, JointLimit)
        \/ PostProcess(p)
        \/ AcquireSim(p)
        \/ SimStep(p)
        \/ SimExit(p)
        \/ Execute(p)
        \/ Cancel(p)
        \/ Expire(p)

Spec == Init /\ [][Next]_vars

\* two callers on the same manipulator
NextConc ==
    \E p \in Callers :
        \/ Call(p, ConcDistances)
        \/ AcquirePlan(p)
        \/ Plan(p, MaxConcSegs, ConcQSteps, ConcJointLimit)
        \/ PostProcess(p)
        \/ AcquireSim(p)
        \/ SimStep(p)
        \/ SimExit(p)
        \/ Execute(p)

SpecConc == Init /\ [][NextConc]_vars

\* one caller, the body of ignore_collisions enabled or disabled beforehand
InitTouch ==
    /\ ctorArgs = [left_ft_sim |-> TRUE, right_ft_sim |-> TRUE]
    /\ InitBody
    /\ bodyEnabled \in BOOLEAN

SpecTouch == InitTouch /\ [][Next]_vars

\* ------------------------------------------------------ the velocity servo
\* a joint velocity v / steps, kept as the fraction the code divides
Rat(n, d) == [num |-> n, den |-> d]

\* velocity vectors a caller may hand to Servo: one joint short, right, one over
VelVectors ==
    UNION {[1..n -> {Rat(0, 1), Rat(1, 1)}] : n \in (ArmDOF - 1)..(ArmDOF + 1)}

Targets == [1..ArmDOF -> {0, 6}]    \* target configurations of ServoTo
Durations == {50, 120}              \* the duration argument of ServoTo, ms
TimeSteps == {50, 60}               \* the timeStep argument (default 50 ms)

\* self.GetRobot().GetDOFValues(self.GetArmIndices())
GetDOFValues == [j \in 1..ArmDOF |-> dof]

\* velocities that are the whole displacement, not divided by steps
VelocitiesUndivided(target, current, steps) ==
    [j \in 1..Len(target) |-> Rat(target[j] - current[j], 1)]

\* wam.py:155: [v / steps for v in velocity]
Velocities(target, current, steps) ==
    [j \in 1..Len(target) |-> Rat(target[j] - current[j], steps)]

\* wam.py:165: [0] * len(self.GetArmIndices())
ZeroVelocities == [j \in 1..ArmDOF |-> Rat(0, 1)]

\* Servo forwarding whatever the mode of the arm
ServoOutcomeAnyMode(len, num_dof, sim) ==
    IF len # num_dof THEN "ValueError" ELSE "SetVelocity"

\* Servo looking at the mode before the length
ServoOutcomeModeFirst(len, num_dof, sim) ==
    IF ~sim THEN "NotImplementedError"
    ELSE IF len # num_dof THEN "ValueError"
    ELSE "SetVelocity"

\* wam.py:126-137: what Servo does with a vector of len velocities
ServoOutcome(len, num_dof, sim) ==
    IF len # num_dof THEN "ValueError"
    ELSE IF ~sim THEN "NotImplementedError"
    ELSE "SetVelocity"

\* ServoTo servoing whatever the collision check said
ServoToRunsAlways(inCollision) == TRUE

\* wam.py:161: if not inCollision
ServoToRuns(inCollision) == ~inCollision

\* wam.py:122-137: a direct call of Servo
Servo(vels) ==
    /\ servoPc \in {"idle", "done"}
    /\ \E v \in vels :
         LET out == ServoOutcome(Len(v), ArmDOF, simulated) IN
         /\ servoArg' = v
         /\ servoLog' = IF out = "SetVelocity" THEN <<v>> ELSE << >>
         /\ servoResult' = IF out = "SetVelocity" THEN "None" ELSE out
    /\ servoOp' = "Servo"
    /\ servoPc' = "done"
    /\ servoTarget' = << >>
    /\ servoDuration' = 0
    /\ servoTimeStep' = 0
    /\ servoSteps' = 0
    /\ servoI' = 0
    /\ servoChecking' = FALSE
    /\ servoInCollision' = FALSE
    /\ UNCHANGED nonServoVars

\* wam.py:139-161: ServoTo up to the branch on inCollision
ServoToCall(targets, durations, timeSteps) ==
    /\ servoPc \in {"idle", "done"}
    /\ \E target \in targets, duration \in durations, timeStep \in timeSteps,
          collisionChecking \in BOOLEAN, hit \in BOOLEAN :
         LET steps == CeilDiv(duration, timeStep)
             inCollision == IF collisionChecking THEN hit ELSE FALSE
         IN /\ hit => collisionChecking
            /\ servoTarget' = target
            /\ servoDuration' = duration
            /\ servoTimeStep' = timeStep
            /\ servoSteps' = steps
            /\ servoArg' = Velocities(target, GetDOFValues, steps)
            /\ servoChecking' = collisionChecking
            /\ servoInCollision' = inCollision
            /\ IF ServoToRuns(inCollision)
               THEN /\ servoPc' = "loop"
                    /\ servoResult' = "none"
               ELSE /\ servoPc' = "done"
                    /\ servoResult' = "False"
    /\ servoOp' = "ServoTo"
    /\ servoI' = 1
    /\ servoLog' = << >>
    /\ UNCHANGED nonServoVars

\* wam.py:162-165: one iteration of "for i in range(1, steps)"
ServoToStep ==
    /\ servoPc = "loop"
    /\ servoI < servoSteps
    /\ LET out == ServoOutcome(Len(servoArg), ArmDOF, simulated) IN
       IF out = "SetVelocity"
       THEN /\ servoLog' = Append(servoLog, servoArg)
            /\ servoI' = servoI + 1
            /\ UNCHANGED <<servoPc, servoResult>>
       ELSE /\ servoPc' = "done"
            /\ servoResult' = out
            /\ UNCHANGED <<servoLog, servoI>>
    /\ UNCHANGED <<servoOp, servoArg, servoTarget, servoDuration,
                   servoTimeStep, servoSteps, servoChecking, servoInCollision>>
    /\ UNCHANGED nonServoVars

\* wam.py:165-167: the loop is over: stop the arm and return True
ServoToStop ==
    /\ servoPc = "loop"
    /\ servoI >= servoSteps
    /\ LET out == ServoOutcome(Len(ZeroVelocities), ArmDOF, simulated) IN
       IF out = "SetVelocity"
       THEN /\ servoLog' = Append(servoLog, ZeroVelocities)
            /\ servoResult' = "True"
       ELSE /\ servoLog' = servoLog
            /\ servoResult' = out
    /\ servoPc' = "done"
    /\ UNCHANGED <<servoOp, servoArg, servoTarget, servoDuration,
                   servoTimeStep, servoSteps, servoI, servoChecking,
                   servoInCollision>>
    /\ UNCHANGED nonServoVars

\* a client of the servo interface of one arm
NextServo ==
    \/ Servo(VelVectors)
    \/ ServoToCall(Targets, Durations, TimeSteps)
    \/ ServoToStep
    \/ ServoToStop

SpecServo == Init /\ [][NextServo]_vars

\* ------------------------------------------------------------------ the hand
\* arguments of MoveHand; each finger has its own value so that the order shows
MoveHandArgs ==
    [f1 : {NoValue, 11}, f2 : {NoValue, 12}, f3 : {NoValue, 13},
     spread : {NoValue, 5}, timeout : {NoValue, 0, 2}]

\* arguments of OpenHand and CloseHand
SpreadArgs == [spread : {NoValue, 5}, timeout : {NoValue, 0, 2}]

OpenAngle == 0        \* barretthand.py:160  f1=0.0, f2=0.0, f3=0.0
ClosedAngle == 32     \* barretthand.py:183  f1=3.2, f2=3.2, f3=3.2

\* MoveHand sending 0 to a joint that was not specified
PreshapeZeroDefault(f1, f2, f3, spread, curr_pos) ==
    <<IF f1 # NoValue THEN f1 ELSE 0,
      IF f2 # NoValue THEN f2 ELSE 0,
      IF f3 # NoValue THEN f3 ELSE 0,
      IF spread # NoValue THEN spread ELSE 0>>

\* barretthand.py:129-136: the preshape MoveHand commands
Preshape(f1, f2, f3, spread, curr_pos) ==
    <<IF f1 # NoValue THEN f1 ELSE curr_pos[1],
      IF f2 # NoValue THEN f2 ELSE curr_pos[2],
      IF f3 # NoValue THEN f3 ELSE curr_pos[3],
      IF spread # NoValue THEN spread ELSE curr_pos[4]>>

\* a wait that forgets the caller's timeout and blocks until the hand is done
WaitArgumentNone(timeout) == NoValue

\* barretthand.py:139, 157, 180: WaitForControllers(..., timeout=timeout)
WaitArgument(timeout) == timeout

\* barretthand.py:138-139: controller.SetDesired(preshape), then the wait begins
MoveHandBody(a) ==
    LET preshape == Preshape(a.f1, a.f2, a.f3, a.spread, handQ) IN
    /\ handCmds' = <<[cmd |-> "SetDesired", q |-> preshape]>>
    /\ handDesired' = preshape
    /\ handWaitTimeout' = WaitArgument(a.timeout)
    /\ handWaited' = 0
    /\ handWaitResult' = "none"
    /\ handResult' = "none"
    /\ handPc' = "wait"
    /\ UNCHANGED <<handSimulated, handQ>>

\* barretthand.py:151-157, 174-180: the fingers are driven by task_manipulation
\* (ReleaseFingers / CloseFingers) to the given angle, the spread stays
FingersBody(cmd, angle, timeout) ==
    /\ handCmds' = <<[cmd |-> cmd, q |-> <<angle, angle, angle, handQ[4]>>]>>
    /\ handDesired' = <<angle, angle, angle, handQ[4]>>
    /\ handWaitTimeout' = WaitArgument(timeout)
    /\ handWaited' = 0
    /\ handWaitResult' = "none"
    /\ handResult' = "none"
    /\ handPc' = "wait"
    /\ UNCHANGED <<handSimulated, handQ>>

\* barretthand.py:115-139
MoveHand(args) ==
    /\ handPc \in {"idle", "done"}
    /\ \E a \in args :
         /\ handArgs' = a
         /\ MoveHandBody(a)
    /\ handOp' = "MoveHand"
    /\ UNCHANGED nonHandVars

\* barretthand.py:141-160
OpenHand(args) ==
    /\ handPc \in {"idle", "done"}
    /\ \E s \in args :
         LET a == [f1 |-> OpenAngle, f2 |-> OpenAngle, f3 |-> OpenAngle,
                   spread |-> s.spread, timeout |-> s.timeout] IN
         /\ handArgs' = a
         /\ IF handSimulated
            THEN FingersBody("ReleaseFingers", OpenAngle, s.timeout)
            ELSE MoveHandBody(a)
    /\ handOp' = "OpenHand"
    /\ UNCHANGED nonHandVars

\* barretthand.py:162-183
CloseHand(args) ==
    /\ handPc \in {"idle", "done"}
    /\ \E s \in args :
         LET a == [f1 |-> ClosedAngle, f2 |-> ClosedAngle, f3 |-> ClosedAngle,
                   spread |-> s.spread, timeout |-> s.timeout] IN
         /\ handArgs' = a
         /\ IF handSimulated
            THEN FingersBody("CloseFingers", ClosedAngle, s.timeout)
            ELSE MoveHandBody(a)
    /\ handOp' = "CloseHand"
    /\ UNCHANGED nonHandVars

\* the wait goes on: the controller is not done and the timeout has not passed
HandTick ==
    /\ handPc = "wait"
    /\ handWaitTimeout = NoValue \/ handWaited < handWaitTimeout
    /\ handWaited < MaxWait
    /\ handWaited' = handWaited + 1
    /\ UNCHANGED <<handSimulated, handQ, handPc, handOp, handArgs, handCmds,
                   handDesired, handWaitTimeout, handWaitResult, handResult>>
    /\ UNCHANGED nonHandVars

\* the controller is done: the hand is at the commanded configuration, the
\* wait ends and the operation returns (it has no return statement)
HandSettle ==
    /\ handPc = "wait"
    /\ handQ' = handDesired
    /\ handWaitResult' = "Settled"
    /\ handResult' = "None"
    /\ handPc' = "done"
    /\ UNCHANGED <<handSimulated, handOp, handArgs, handCmds, handDesired,
                   handWaitTimeout, handWaited>>
    /\ UNCHANGED nonHandVars

\* the timeout of the wait has passed: the wait ends and the operation returns
HandTimeout ==
    /\ handPc = "wait"
    /\ handWaitTimeout # NoValue
    /\ handWaited >= handWaitTimeout
    /\ handWaitResult' = "TimedOut"
    /\ handResult' = "None"
    /\ handPc' = "done"
    /\ UNCHANGED <<handSimulated, handQ, handOp, handArgs, handCmds,
                   handDesired, handWaitTimeout, handWaited>>
    /\ UNCHANGED nonHandVars

\* a client of one hand
NextHand ==
    \/ MoveHand(MoveHandArgs)
    \/ OpenHand(SpreadArgs)
    \/ CloseHand(SpreadArgs)
    \/ HandTick
    \/ HandSettle
    \/ HandTimeout

SpecHand == Init /\ [][NextHand]_vars

\* -------------------------------------------------------------- the gestures
\* the manip argument of a gesture
ManipArgs == {"None"} \cup Manipulators

\* rogue.py:58-59: manip defaults to the active manipulator
GestureManip(manip, active) == IF manip = "None" THEN active ELSE manip

\* every gesture taking either arm
AllowedNamesEitherArm(kind) == {"right", "left"}

\* rogue.py:61, 91, 126-142, 254-268, 282-298: the manipulator names a gesture
\* goes on with
AllowedNames(kind) ==
    IF kind \in {"Point", "Present"} THEN {"right"} ELSE {"right", "left"}

PlanCall(call, name) == [call |-> call, on |-> name]
MoveHandCall(name) == [call |-> "MoveHand", on |-> name]
IsPlanCall(c) == c.call # "MoveHand"

\* the planning calls and hand commands of a gesture, in the order of the code
GestureCalls(kind, name) ==
    IF kind \in {"Point", "Present"}
    THEN <<PlanCall("PlanToTSR", name), MoveHandCall(name)>>
    ELSE IF kind = "Sweep"
    THEN <<MoveHandCall(name), PlanCall("PlanToEndEffectorPose", name),
           PlanCall("PlanToTSR", name)>>
    ELSE <<PlanCall("PlanToConfiguration", name), MoveHandCall(name)>>

\* a gesture: the check of the manipulator's name, then its calls, up to the
\* first planning call that raises
Gesture(kind, manips) ==
    /\ actKind' = kind
    /\ \E manip \in manips :
         LET name == GestureManip(manip, actActive)
             calls == GestureCalls(kind, name)
         IN /\ actManip' = manip
            /\ IF name \notin AllowedNames(kind)
               THEN /\ actResult' = "PrPyException"
                    /\ actLog' = << >>
               ELSE \E f \in {0} \cup {i \in 1..Len(calls) : IsPlanCall(calls[i])} :
                      IF f = 0
                      THEN /\ actResult' = "None"
                           /\ actLog' = calls
                      ELSE /\ actResult' = "PlanningError"
                           /\ actLog' = SubSeq(calls, 1, f)
    /\ UNCHANGED actActive
    /\ UNCHANGED nonRogueVars

\* rogue.py:50-77
Point(manips) == Gesture("Point", manips)

\* rogue.py:79-107
Present(manips) == Gesture("Present", manips)

\* rogue.py:110-165
Sweep(manips) == Gesture("Sweep", manips)

\* rogue.py:244-270
HaltHand(manips) == Gesture("HaltHand", manips)

\* rogue.py:272-299
MiddleFinger(manips) == Gesture("MiddleFinger", manips)

\* a client of the gestures
NextRogue ==
    \/ Point(ManipArgs)
    \/ Present(ManipArgs)
    \/ Sweep(ManipArgs)
    \/ HaltHand(ManipArgs)
    \/ MiddleFinger(ManipArgs)

SpecRogue == Init /\ [][NextRogue]_vars

\* -------------------------------------------------- limits and cloned arms
LimitVectors == [1..ArmDOF -> {1, 2}]   \* the velocity_limits argument
MinAccelTimes == {1, 2}                 \* the min_accel_time argument

\* wam.py:189-211: SetVelocityLimits; the OpenRAVE limits are set by
\* Manipulator.SetVelocityLimits when the openrave flag is set
SetVelocityLimits(limits, times) ==
    /\ \E velocity_limits \in limits, min_accel_time \in times,
          openrave \in BOOLEAN :
         IF openrave
         THEN /\ velLimits' = velocity_limits
              /\ accelLimits' = [j \in 1..ArmDOF |->
                                    Rat(velocity_limits[j], min_accel_time)]
         ELSE UNCHANGED <<velLimits, accelLimits>>
    /\ UNCHANGED cloneSimulated
    /\ UNCHANGED nonBindVars

\* a cloned arm taking the mode of its parent
CloneModeOfParent(parentSimulated) == parentSimulated

\* wam.py:75: self.simulated = True
CloneMode(parentSimulated) == TRUE

\* wam.py:72-79: CloneBindings runs on the new binding of a cloned arm
CloneBindings ==
    /\ cloneSimulated' = cloneSimulated \cup {CloneMode(simulated)}
    /\ UNCHANGED <<velLimits, accelLimits>>
    /\ UNCHANGED nonBindVars

\* ------------------------------------------ HERBRobot.ExecuteTrajectory
\* herbrobot.py:247: the manipulators a trajectory moves, in any order
ActiveManipulators ==
    {a \in UNION {[1..n -> Manipulators] : n \in 0..Cardinality(Manipulators)} :
        \A i, j \in 1..Len(a) : i # j => a[i] # a[j]}

\* the status methods of the head (HERBPantilt, whose file is not in src/):
\* every outcome
HeadClearOutcomes == {"ok", "NotImplementedError"}
HeadStatusOutcomes == {"done", "aborted", "NotImplementedError"}

\* manipulator.ClearTrajectoryStatus(): the arms are WAMs
ClearOutcomes(m) ==
    IF m \in {"left", "right"} THEN {ClearTrajectoryStatus}
    ELSE HeadClearOutcomes

\* manipulator.GetTrajectoryStatus(): the arms are WAMs
StatusOutcomes(m) ==
    IF m \in {"left", "right"} THEN {GetTrajectoryStatus}
    ELSE HeadStatusOutcomes

\* a failed clearing that does not stop the call
AfterClearSwallowed(out) == "continue"

\* herbrobot.py:249-250: an exception of ClearTrajectoryStatus leaves the method
AfterClear(out) == IF out \in Exceptions THEN out ELSE "continue"

\* herbrobot.py:254-257: an exception of GetTrajectoryStatus leaves the method,
\* the status 'aborted' raises TrajectoryAborted
AfterStatus(status) ==
    IF status \in Exceptions THEN status
    ELSE IF status = "aborted" THEN "TrajectoryAborted"
    ELSE "continue"

Event(ev, m, out) == [ev |-> ev, m |-> m, out |-> out]

\* herbrobot.py:244-247
ExecuteTrajectoryCall(actives) ==
    /\ exPc \in {"idle", "done"}
    /\ \E a \in actives : exActive' = a
    /\ exI' = 1
    /\ exLog' = << >>
    /\ exResult' = "none"
    /\ exPc' = "clear"
    /\ UNCHANGED nonExecVars

\* herbrobot.py:249-250: one iteration of the clearing loop
ClearStatus ==
    /\ exPc = "clear"
    /\ exI <= Len(exActive)
    /\ \E out \in ClearOutcomes(exActive[exI]) :
         /\ exLog' = Append(exLog, Event("Clear", exActive[exI], out))
         /\ IF AfterClear(out) = "continue"
            THEN /\ exI' = exI + 1
                 /\ UNCHANGED <<exPc, exResult>>
            ELSE /\ exPc' = "done"
                 /\ exResult' = AfterClear(out)
                 /\ UNCHANGED exI
    /\ UNCHANGED exActive
    /\ UNCHANGED nonExecVars

\* herbrobot.py:252: the trajectory goes to Robot.ExecuteTrajectory
Dispatch ==
    /\ exPc = "clear"
    /\ exI > Len(exActive)
    /\ exLog' = Append(exLog, Event("Dispatch", "robot", "value"))
    /\ exI' = 1
    /\ exPc' = "status"
    /\ UNCHANGED <<exActive, exResult>>
    /\ UNCHANGED nonExecVars

\* herbrobot.py:254-257: one iteration of the status loop
ReadStatus ==
    /\ exPc = "status"
    /\ exI <= Len(exActive)
    /\ \E status \in StatusOutcomes(exActive[exI]) :
         /\ exLog' = Append(exLog, Event("GetStatus", exActive[exI], status))
         /\ IF AfterStatus(status) = "continue"
            THEN /\ exI' = exI + 1
                 /\ UNCHANGED <<exPc, exResult>>
            ELSE /\ exPc' = "done"
                 /\ exResult' = AfterStatus(status)
                 /\ UNCHANGED exI
    /\ UNCHANGED exActive
    /\ UNCHANGED nonExecVars

\* herbrobot.py:259: return value
ReturnValueOfExecutor ==
    /\ exPc = "status"
    /\ exI > Len(exActive)
    /\ exResult' = "value"
    /\ exPc' = "done"
    /\ UNCHANGED <<exActive, exI, exLog>>
    /\ UNCHANGED nonExecVars

\* a caller of HERBRobot.ExecuteTrajectory
NextExec ==
    \/ ExecuteTrajectoryCall(ActiveManipulators)
    \/ ClearStatus
    \/ Dispatch
    \/ ReadStatus
    \/ ReturnValueOfExecutor

SpecExec == Init /\ [][NextExec]_vars

\* ------------------------------------------- the force/torque sensors
\* barretthand.py:225-239: GetForceTorque reads the sensor of a hand whose
\* ft_simulated is False and returns zeros for one whose ft_simulated is True
GetForceTorque(side) ==
    /\ ftRead' = [hand |-> side,
                  from |-> IF ~ftSimulated[side] THEN "sensor" ELSE "zeros"]
    /\ UNCHANGED <<ctorArgs, ftSimulated>>
    /\ UNCHANGED nonBootVars

\* a robot constructed with any force/torque flags, its sensors being read
InitBoot ==
    /\ ctorArgs \in [left_ft_sim : BOOLEAN, right_ft_sim : BOOLEAN]
    /\ InitBody
    /\ bodyEnabled = TRUE

NextBoot == \E side \in Hands : GetForceTorque(side)

SpecBoot == InitBoot /\ [][NextBoot]_vars

\* ------------------------------------- one client using every operation
\* the inputs of the client: one of each kind
OpsVelVectors == {v \in VelVectors : \A j \in 1..Len(v) : v[j] = Rat(1, 1)}
OpsTargets == {t \in Targets : \A j \in 1..ArmDOF : t[j] = 6}
OpsDurations == {120}
OpsTimeSteps == {50}
OpsMoveHandArgs ==
    {a \in MoveHandArgs : /\ a.f1 = NoValue /\ a.f2 = 12 /\ a.f3 = NoValue
                          /\ a.spread = NoValue /\ a.timeout = 2}
OpsSpreadArgs == {a \in SpreadArgs : a.spread = NoValue /\ a.timeout = 2}
OpsLimits == {l \in LimitVectors : \A j \in 1..ArmDOF : l[j] = 2}
OpsAccelTimes == {2}

\* the client is between two operations
OpsIdle ==
    /\ pc[1] \in {"idle", "done"}
    /\ servoPc \in {"idle", "done"}
    /\ handPc \in {"idle", "done"}

\* a single-threaded client: it calls the next operation when the last returned
NextOps ==
    \/ OpsIdle /\ Call(1, ConcDistances)
    \/ AcquirePlan(1)
    \/ Plan(1, MaxConcSegs, ConcQSteps, ConcJointLimit)
    \/ PostProcess(1)
    \/ AcquireSim(1)
    \/ SimStep(1)
    \/ SimExit(1)
    \/ Execute(1)
    \/ OpsIdle /\ Servo(OpsVelVectors)
    \/ OpsIdle /\ ServoToCall(OpsTargets, OpsDurations, OpsTimeSteps)
    \/ ServoToStep
    \/ ServoToStop
    \/ OpsIdle /\ MoveHand(OpsMoveHandArgs)
    \/ OpsIdle /\ OpenHand(OpsSpreadArgs)
    \/ OpsIdle /\ CloseHand(OpsSpreadArgs)
    \/ HandTick
    \/ HandSettle
    \/ HandTimeout
    \/ OpsIdle /\ SetVelocityLimits(OpsLimits, OpsAccelTimes)
    \/ OpsIdle /\ CloneBindings

SpecOps == Init /\ [][NextOps]_vars

\* ------------------------------------------------ vocabulary of the claims
\* the executor state of the spec, read off a call
ExecState(p) ==
    IF pc[p] = "idle" THEN "Idle"
    ELSE IF pc[p] \in RunningPcs THEN "Running"
    ELSE IF result[p] = "True" THEN "Halted"
    ELSE IF result[p] = "False" THEN "Completed"
    ELSE IF result[p] \in Exceptions THEN "Failed"
    ELSE "NoOutcome"

TypeOK ==
    /\ simulated \in BOOLEAN
    /\ envOwner \in {0} \cup Callers
    /\ \A p \in Callers :
        /\ pc[p] \in {"idle", "done"} \cup RunningPcs
        /\ result[p] \in {"none", "True", "False"} \cup Exceptions
        /\ reason[p] \in {"None", "EnvironmentCollision", "SelfCollision"}


\* the sample times of the call's loop, and their number
SampleTimes(p) == arange(0, GetDuration(traj[p]), delta_t)

\* the forward simulation of the call has been entered / has been left
Simulating(p) == idx[p] >= 1
LoopLeft(p) == Simulating(p) /\ pc[p] \in {"simexit", "exec", "done"}
Returned(p) == Simulating(p) /\ pc[p] = "done"

\* the joint values of the output trajectory
Qs(out) == [j \in 1..Len(out) |-> out[j].q]

\* ------------------------------------------------------------------ claims

\* C1: when a check first trips at the k-th sample, the loop stops at that
\* sample and the output trajectory holds exactly the k-1 samples before it,
\* in order, without the tripping sample.
C1_PrefixExcludesTrippingSample ==
    \A p \in Callers :
        (LoopLeft(p) /\ is_collision[p]) =>
            /\ idx[p] \in 1..Len(SampleTimes(p))
            /\ sensed[p].env \/ sensed[p].self
            /\ Len(new_traj[p]) = idx[p] - 1
            /\ \A j \in 1..Len(new_traj[p]) :
                   new_traj[p][j].q = Sample(traj[p], SampleTimes(p)[j])

\* C1 witness: a collision at the 5th sample has left a prefix of 4 samples
C1_Witness ==
    /\ pc[1] = "exec"
    /\ is_collision[1]
    /\ sensed[1].env
    /\ idx[1] = 5
    /\ Len(new_traj[1]) = 4

\* C2 as claimed: when the samples run out and no check tripped, the call ends
\* Completed and the output trajectory runs from the planned trajectory's
\* first waypoint up to and including its end.
C2_CompletedWithFullTrajectory ==
    \A p \in Callers :
        (Returned(p) /\ ~is_collision[p] /\ Len(traj[p]) > 0) =>
            /\ ExecState(p) = "Completed"
            /\ Len(new_traj[p]) > 0
            /\ new_traj[p][1].q = traj[p][1].q
            /\ new_traj[p][Len(new_traj[p])].q = traj[p][Len(traj[p])].q

\* C3: when the environment-collision check and the force threshold both hold
\* at the sample that stops the loop, the logged reason is the environment
\* collision; a collision reason is reported whatever the force reading.
C3_CollisionBeforeForce ==
    \A p \in Callers :
        (LoopLeft(p) /\ is_collision[p]) =>
            /\ sensed[p].env => reason[p] = "EnvironmentCollision"
            /\ (sensed[p].self /\ ~sensed[p].env) => reason[p] = "SelfCollision"
            /\ reason[p] \in {"EnvironmentCollision", "SelfCollision"}

\* C3 witness: collision and force held together, the collision was reported
C3_Witness ==
    /\ LoopLeft(1)
    /\ sensed[1].env
    /\ sensed[1].force
    /\ reason[1] = "EnvironmentCollision"

C5_ShortTrajectoryCompletes ==
    \A p \in Callers :
        (/\ Returned(p)
         /\ ~is_collision[p]
         /\ Len(traj[p]) > 0
         /\ traj[p][Len(traj[p])].q - traj[p][1].q < distance[p])
            => ExecState(p) = "Completed"

\* C6 as claimed: a cancel signal raised after k of n samples (k < n) stops
\* the run with reason Cancelled and a prefix of k samples.
C6_CancelHalts ==
    \A p \in Callers :
        (LoopLeft(p) /\ cancelAt[p] # NoTick
                     /\ cancelAt[p] < Len(SampleTimes(p))) =>
            /\ reason[p] = "Cancelled"
            /\ Len(new_traj[p]) = cancelAt[p]

\* C6 amended: a cancel signal does not stop the run: the loop stops only on a
\* collision or when the samples run out, so without a collision all n samples
\* are in the prefix, and Cancelled is never the reason.
C6_CancelNotObserved ==
    \A p \in Callers :
        (LoopLeft(p) /\ cancelAt[p] # NoTick) =>
            /\ reason[p] # "Cancelled"
            /\ is_collision[p] => (sensed[p].env \/ sensed[p].self)
            /\ ~is_collision[p] => Len(new_traj[p]) = Len(SampleTimes(p))

\* C6 witness: cancelled after 3 samples, the loop still applied all 6
C6_Witness ==
    /\ LoopLeft(1)
    /\ cancelAt[1] = 3
    /\ ~is_collision[1]
    /\ Len(new_traj[1]) = 6

\* a call of the caller is under way
Live(p) == pc[p] \in RunningPcs

\* C7 as claimed: at most one execution is live on the manipulator at a time.
C7_AtMostOneLive == ~(Live(1) /\ Live(2))

\* C7 amended: a second call is never refused with Busy; it is admitted and
\* waits for the environment lock, and only the sections under that lock
\* (planning, forward simulation) exclude each other.
C7_QueuedOnEnvLock ==
    /\ \A p \in Callers : result[p] # "Busy"
    /\ \A p \in Callers : (pc[p] \in {"plan", "sim", "simexit"}) <=> (envOwner = p)

\* C7 witness: the second call waits for the lock while the first simulates
C7_Witness ==
    /\ pc[1] = "sim"
    /\ Len(new_traj[1]) > 0
    /\ pc[2] = "lock1"

\* the three outcome states of the spec
Outcomes == {"Completed", "Halted", "Failed"}

\* C8 as claimed: an outcome state is terminal: nothing changes after it and
\* the manipulator cannot be used for another run.
C8_OutcomeIsTerminal ==
    [][\A p \in Callers :
          ExecState(p) \in Outcomes =>
              (ExecState(p)' = ExecState(p) /\ sent'[p] = sent[p])]_vars

\* C8 amended: a call moves only Idle -> Running -> one of Completed, Halted,
\* Failed and issues nothing once it has its outcome; the manipulator is
\* reusable: the only step out of an outcome is a new call, which is Running.
C8_OutcomeUntilNextCall ==
    [][\A p \in Callers :
          /\ ExecState(p) = "Idle" => ExecState(p)' \in {"Idle", "Running"}
          /\ ExecState(p) = "Running" =>
                 ExecState(p)' \in {"Running"} \cup Outcomes
          /\ ExecState(p) \in Outcomes =>
                 \/ ExecState(p)' = ExecState(p) /\ sent'[p] = sent[p]
                                                 /\ result'[p] = result[p]
                 \/ ExecState(p)' = "Running" /\ pc'[p] = "lock1"
                                              /\ sent'[p] = << >>
          /\ ExecState(p) # "NoOutcome"]_vars

\* C8 witness: a call has reached the outcome Halted and sent nothing
C8_Witness ==
    /\ ExecState(1) = "Halted"
    /\ reason[1] = "SelfCollision"
    /\ sent[1] = << >>

\* C9 as claimed: a deadline that expires while the call is running stops the
\* run with reason Timeout and the samples applied so far.
C9_TimeoutHalts ==
    \A p \in Callers :
        (LoopLeft(p) /\ expiredAt[p] # NoTick
                     /\ expiredAt[p] < Len(SampleTimes(p))) =>
            /\ reason[p] = "Timeout"
            /\ Len(new_traj[p]) = expiredAt[p]

\* C9 amended: no deadline is observed: after it expires the loop still stops
\* only on a collision or when the samples run out, and Timeout is never the
\* reason.
C9_DeadlineNotObserved ==
    \A p \in Callers :
        (LoopLeft(p) /\ expiredAt[p] # NoTick) =>
            /\ reason[p] # "Timeout"
            /\ is_collision[p] => (sensed[p].env \/ sensed[p].self)
            /\ ~is_collision[p] => Len(new_traj[p]) = Len(SampleTimes(p))

\* C9 witness: the deadline expired after 2 samples, the loop applied all 6
C9_Witness ==
    /\ LoopLeft(1)
    /\ expiredAt[1] = 2
    /\ ~is_collision[1]
    /\ Len(new_traj[1]) = 6

\* C10: a collaborator failure (the planner raises, the arm is not simulated,
\* ExecuteTrajectory raises) ends the call Failed with that error; the planner
\* is called once, nothing is simulated or sent after a planning failure, and
\* no command is sent twice.
C10_FailurePropagates ==
    \A p \in Callers :
        pc[p] = "done" =>
            /\ plans[p] = 1
            /\ Len(sent[p]) <= 1
            /\ ~planOK[p] =>
                   /\ result[p] = "PlanningError"
                   /\ ~Simulating(p) /\ new_traj[p] = << >> /\ sent[p] = << >>
            /\ (planOK[p] /\ ~simulated) =>
                   /\ result[p] = "NotImplementedError"
                   /\ ~Simulating(p) /\ new_traj[p] = << >> /\ sent[p] = << >>
            /\ (Simulating(p) /\ Len(new_traj[p]) > 0
                    /\ ExecuteTrajectory.exc # "none") =>
                   result[p] = ExecuteTrajectory.exc
            /\ result[p] \in Exceptions => ExecState(p) = "Failed"

\* C10 witness: the planner raised and the call ended with its error
C10_Witness ==
    /\ pc[1] = "done"
    /\ ~planOK[1]
    /\ simulated
    /\ result[1] = "PlanningError"


\* the samples the call handed over to the controller
Applied(p) == IF sent[p] = << >> THEN << >> ELSE Qs(sent[p][1])

\* C11 as claimed: the loop's sampler yields ceil(duration / delta_t) + 1
\* samples of a trajectory, the first of them the trajectory's first waypoint.
C11_SampleCountCeilPlusOne ==
    \A p \in Callers :
        (LoopLeft(p) /\ ~is_collision[p] /\ Len(traj[p]) > 0) =>
            /\ Len(new_traj[p]) = CeilDiv(GetDuration(traj[p]), delta_t) + 1
            /\ new_traj[p][1].q = traj[p][1].q

\* C12 as claimed: a call that halted or failed leaves a prefix that is exactly
\* the sequence of samples applied to the actuator before the stop.
C12_PrefixIsWhatWasApplied ==
    \A p \in Callers :
        (Returned(p) /\ ExecState(p) \in {"Halted", "Failed"}) =>
            Applied(p) = Qs(new_traj[p])

\* a direct call of Servo has returned or raised
ServoCalled == servoOp = "Servo" /\ servoPc = "done"

\* a call of ServoTo has returned or raised
ServoToReturned == servoOp = "ServoTo" /\ servoPc = "done"

\* C13: a non-simulated arm never hands a velocity to the servo simulator, and
\* Servo with a vector of the right length raises NotImplementedError on it; on
\* a simulated arm the same call forwards the vector unchanged.
C13_ServoOnlyWhenSimulated ==
    /\ ~simulated => servoLog = << >>
    /\ (ServoCalled /\ Len(servoArg) = ArmDOF) =>
          IF simulated
          THEN servoResult = "None" /\ servoLog = <<servoArg>>
          ELSE servoResult = "NotImplementedError"

\* C13 witness: Servo was refused on a non-simulated arm
C13_Witness ==
    /\ ServoCalled
    /\ ~simulated
    /\ Len(servoArg) = ArmDOF
    /\ servoResult = "NotImplementedError"
    /\ servoLog = << >>

\* C14: Servo with a vector whose length is not the number of arm joints
\* raises ValueError in either mode, so before the mode is looked at, and
\* nothing is handed to the servo simulator.
C14_WrongLengthRejectedFirst ==
    (ServoCalled /\ Len(servoArg) # ArmDOF) =>
        servoResult = "ValueError" /\ servoLog = << >>

\* C14 witness: a vector one joint too long was rejected on a non-simulated arm
C14_Witness ==
    /\ ServoCalled
    /\ ~simulated
    /\ Len(servoArg) = ArmDOF + 1
    /\ servoResult = "ValueError"

HandWaiting == handPc = "wait"
HandReturned == handPc = "done"

\* the wait follows a command, lasts at most the caller's timeout, does not
\* last at all when the timeout is zero, and ends only by settling when the
\* timeout is None
WaitWithinTimeout ==
    /\ (HandWaiting \/ handWaited > 0) => handCmds # << >>
    /\ handArgs.timeout # NoValue => handWaited <= handArgs.timeout
    /\ handArgs.timeout = 0 => handWaited = 0
    /\ HandReturned =>
          /\ handWaitResult \in {"Settled", "TimedOut"}
          /\ handArgs.timeout = NoValue => handWaitResult = "Settled"

\* C15 as claimed: the wait is bounded by the timeout as above, and the
\* operation's result is one of Settled, TimedOut or Aborted.
C15_WaitResultReported ==
    /\ WaitWithinTimeout
    /\ HandReturned => handResult \in {"Settled", "TimedOut", "Aborted"}

\* C15, amended: the wait comes after the command, lasts at most the timeout,
\* not at all for a timeout of zero, and until the hand settles for None; the
\* operation returns None whether the hand settled or the wait timed out.
C15_WaitWithinTimeoutResultDropped ==
    /\ WaitWithinTimeout
    /\ HandReturned => handResult = "None"

\* C15 witness: a wait with a timeout of 2 ticks timed out after 2 ticks
C15_Witness ==
    /\ HandReturned
    /\ handArgs.timeout = 2
    /\ handWaited = 2
    /\ handWaitResult = "TimedOut"
    /\ handResult = "None"

\* C16: the preshape MoveHand gives to the controller holds, in the order
\* [finger 0, finger 1, finger 2, spread], the argument for each joint that was
\* given and the joint's current value for each joint left as None.
C16_MoveHandOnlySpecifiedJoints ==
    (HandWaiting /\ handCmds[1].cmd = "SetDesired") =>
        LET given == <<handArgs.f1, handArgs.f2, handArgs.f3, handArgs.spread>>
        IN /\ Len(handCmds) = 1
           /\ \A j \in 1..4 :
                 handCmds[1].q[j] =
                     IF given[j] = NoValue THEN handQ[j] ELSE given[j]

\* C16 witness: MoveHand(f2=1.2) on a closed hand with spread 0.5 commands
\* the closed fingers 0 and 2 and the spread as they are
C16_Witness ==
    /\ HandWaiting
    /\ handOp = "MoveHand"
    /\ handQ = <<32, 32, 32, 5>>
    /\ handArgs.f1 = NoValue /\ handArgs.f2 = 12
    /\ handArgs.f3 = NoValue /\ handArgs.spread = NoValue
    /\ handCmds = <<[cmd |-> "SetDesired", q |-> <<32, 12, 32, 5>>]>>

\* C18: no operation changes the mode of the arm or of the hand, and every arm
\* binding made by cloning is simulated, whatever the mode of its parent.
C18_ModeFixedClonesSimulated ==
    [][/\ simulated' = simulated
       /\ handSimulated' = handSimulated
       /\ cloneSimulated' \subseteq {TRUE}]_vars

\* C18 witness: on a real arm with a real hand MoveUntilTouch, Servo or
\* ServoTo, a hand operation and SetVelocityLimits have run and the arm was cloned
C18_Witness ==
    /\ ~simulated
    /\ ~handSimulated
    /\ result[1] = "NotImplementedError"
    /\ servoResult = "NotImplementedError"
    /\ handResult = "None"
    /\ velLimits = [j \in 1..ArmDOF |-> 2]
    /\ cloneSimulated = {TRUE}

\* the manipulator the last gesture worked with
GestureName == GestureManip(actManip, actActive)

\* C20: Point and Present on a manipulator not named right, and Sweep,
\* HaltHand and MiddleFinger on one named neither right nor left, raise
\* PrPyException and have made no planning call and given no hand command.
C20_WrongManipulatorRaisesFirst ==
    /\ (actKind \in {"Point", "Present"} /\ GestureName # "right") =>
          (actResult = "PrPyException" /\ actLog = << >>)
    /\ (actKind \in {"Sweep", "HaltHand", "MiddleFinger"}
          /\ GestureName \notin {"right", "left"}) =>
          (actResult = "PrPyException" /\ actLog = << >>)

\* C20 witness: Point without a manip argument while the left arm is active
C20_Witness ==
    /\ actKind = "Point"
    /\ actManip = "None"
    /\ actActive = "left"
    /\ actResult = "PrPyException"
    /\ actLog = << >>

\* C21 as claimed: in simulation MoveUntilTouch returns True exactly when a
\* collision was detected at some sample and False exactly when every sample
\* was free of collision.
C21_ReturnsCollisionFlag ==
    \A p \in Callers :
        Returned(p) =>
            /\ result[p] = "True" <=> is_collision[p]
            /\ result[p] = "False" <=> ~is_collision[p]

\* C22: a sample where the environment collides is attributed to the
\* environment collision also when the robot collides with itself there, a
\* self-collision is logged only when the environment check found nothing,
\* and the sample that tripped a check is not in the output trajectory.
C22_EnvironmentCheckedBeforeSelf ==
    \A p \in Callers :
        (LoopLeft(p) /\ is_collision[p]) =>
            /\ (sensed[p].env /\ sensed[p].self) =>
                   reason[p] = "EnvironmentCollision"
            /\ reason[p] = "SelfCollision" => (sensed[p].self /\ ~sensed[p].env)
            /\ reason[p] = "EnvironmentCollision" => sensed[p].env
            /\ Len(new_traj[p]) = idx[p] - 1
            /\ \A j \in 1..Len(new_traj[p]) :
                   new_traj[p][j].q # Sample(traj[p], SampleTimes(p)[idx[p]])

\* C22 witness: both collisions held at the 2nd sample, the environment
\* collision was logged and one sample is in the output trajectory
C22_Witness ==
    /\ LoopLeft(1)
    /\ idx[1] = 2
    /\ sensed[1].env
    /\ sensed[1].self
    /\ reason[1] = "EnvironmentCollision"
    /\ Len(new_traj[1]) = 1

\* C23: the trajectory is dispatched only after the status of every active
\* manipulator was cleared; a clearing that raises ends the call with its
\* error before any dispatch; a status read that raises ends it with that
\* error, the status aborted ends it with TrajectoryAborted, and the
\* executor's value is returned only when every status was read and none
\* said aborted.
C23_ClearThenDispatchThenStatus ==
    LET n == Len(exActive) IN
    /\ \A k \in 1..Len(exLog) :
          /\ exLog[k].ev = "Dispatch" =>
                /\ k = n + 1
                /\ \A j \in 1..n : exLog[j] = Event("Clear", exActive[j], "ok")
          /\ (exLog[k].ev = "Clear" /\ exLog[k].out \in Exceptions) =>
                /\ k = Len(exLog)
                /\ exPc = "done"
                /\ exResult = exLog[k].out
          /\ (exLog[k].ev = "GetStatus" /\ exLog[k].out \in Exceptions) =>
                (k = Len(exLog) /\ exPc = "done" /\ exResult = exLog[k].out)
          /\ (exLog[k].ev = "GetStatus" /\ exLog[k].out = "aborted") =>
                (k = Len(exLog) /\ exPc = "done"
                    /\ exResult = "TrajectoryAborted")
    /\ exResult = "TrajectoryAborted" =>
          \E k \in 1..Len(exLog) :
              exLog[k].ev = "GetStatus" /\ exLog[k].out = "aborted"
    /\ exResult = "value" =>
          /\ Len(exLog) = 2 * n + 1
          /\ \A j \in 1..n :
                /\ exLog[n + 1 + j].ev = "GetStatus"
                /\ exLog[n + 1 + j].m = exActive[j]
                /\ exLog[n + 1 + j].out \notin Exceptions \cup {"aborted"}

\* C23 witness: the head was cleared, clearing the right arm raised, and the
\* call ended in NotImplementedError without a dispatch
C23_Witness ==
    /\ exPc = "done"
    /\ exActive = <<"head", "right">>
    /\ exLog = <<Event("Clear", "head", "ok"),
                 Event("Clear", "right", "NotImplementedError")>>
    /\ exResult = "NotImplementedError"

\* C24 as claimed: the joint values set during the forward simulation are
\* restored before ExecuteTrajectory is called: once a call is past its
\* simulation block and no other call is inside one, the joints are where they
\* were before the calls (nothing was executed, so that is the initial value).
C24_JointValuesRestored ==
    \A p \in Callers :
        (pc[p] \in {"exec", "done"} /\ Simulating(p)
            /\ \A o \in Callers : pc[o] \notin {"sim", "simexit"}) =>
            dof = 0 \/ \E o \in Callers : sent[o] # << >>

\* a call on a non-simulated arm has ended
RealCallEnded(p) == ~simulated /\ pc[p] = "done"

\* the call planned once, executed nothing, and the enabled flag of the ignored
\* body and the active manipulator are what the savers found
PlannedAndRestored(p) ==
    /\ plans[p] = 1
    /\ sent[p] = << >>
    /\ new_traj[p] = << >>
    /\ bodyEnabled = planSaved[p].enabled
    /\ actActive = planSaved[p].active

\* C25 as claimed: on a non-simulated arm every call fails with
\* NotImplementedError, after planning, with nothing executed and the planning
\* block's saved state restored.
C25_RealArmAlwaysNotImplemented ==
    \A p \in Callers :
        RealCallEnded(p) =>
            (result[p] = "NotImplementedError" /\ PlannedAndRestored(p))

\* C25, amended: on a non-simulated arm a call fails with NotImplementedError
\* when the planner returned a path and with the planner's error when it
\* raised; either way after planning, with nothing executed and the planning
\* block's saved state restored.
C25_RealArmFailsAfterPlanning ==
    \A p \in Callers :
        RealCallEnded(p) =>
            /\ result[p] = IF planOK[p] THEN "NotImplementedError"
                           ELSE "PlanningError"
            /\ PlannedAndRestored(p)

\* C25 witness: a call on a non-simulated arm planned a path and raised
\* NotImplementedError; the body is enabled again, the left arm active again
C25_Witness ==
    /\ RealCallEnded(1)
    /\ planOK[1]
    /\ path[1] # << >>
    /\ result[1] = "NotImplementedError"
    /\ bodyEnabled
    /\ actActive = "left"

\* C26: a ServoTo (of a positive duration) that returned True has given the
\* servo ceil(duration / timeStep) commands: all but the last are the vector
\* (target - start) / ceil(duration / timeStep), the last is all zero; a
\* ServoTo that returned False has given none.
C26_ServoToCommandCount ==
    ServoToReturned =>
        LET steps == CeilDiv(servoDuration, servoTimeStep) IN
        /\ servoResult = "True" =>
              /\ Len(servoLog) = (steps - 1) + 1
              /\ \A k \in 1..(steps - 1) :
                    servoLog[k] = [j \in 1..ArmDOF |->
                                      Rat(servoTarget[j] - GetDOFValues[j], steps)]
              /\ servoLog[steps] = [j \in 1..ArmDOF |-> Rat(0, 1)]
        /\ servoResult = "False" => servoLog = << >>

\* C26 witness: ServoTo over 120 ms in steps of 50 ms returned True after two
\* commands of a third of the displacement and the zero command
C26_Witness ==
    /\ ServoToReturned
    /\ servoResult = "True"
    /\ servoDuration = 120
    /\ servoTimeStep = 50
    /\ servoTarget = [j \in 1..ArmDOF |-> 6]
    /\ Len(servoLog) = 3
    /\ servoLog[1] = [j \in 1..ArmDOF |-> Rat(6, 3)]
    /\ servoLog[2] = servoLog[1]

\* C27 as claimed: each hand has the force/torque simulation flag of its own
\* side, so that GetForceTorque of the left hand reads the sensor exactly when
\* left_ft_sim is False and that of the right hand when right_ft_sim is False.
C27_FtFlagOfOwnSide ==
    /\ ftSimulated["left"] = ctorArgs.left_ft_sim
    /\ ftSimulated["right"] = ctorArgs.right_ft_sim
    /\ ftRead.hand = "left" =>
          ftRead.from = IF ctorArgs.left_ft_sim THEN "zeros" ELSE "sensor"
    /\ ftRead.hand = "right" =>
          ftRead.from = IF ctorArgs.right_ft_sim THEN "zeros" ELSE "sensor"

====
